---- MODULE Spec2Model ----
(***************************************************************************)
(* Model of the unmand client library (src/src/unmand/__init__.py):        *)
(* the Extraction handle, ExfilAPI.queue, ExfilAPI.poll, the Task entity   *)
(* and SwarmAPI.upload_swarm_task / update_swarm_task.                     *)
(*                                                                         *)
(* The library is sequential.  A caller script is modelled that either     *)
(* queues one file and then polls the returned handle some number of       *)
(* times, or builds one Task and uploads / updates it.  The server and the *)
(* HTTP transport are the environment: every network call either fails     *)
(* in the transport (requests raises) or answers with a status code and a  *)
(* JSON body, both chosen nondeterministically.                            *)
(*                                                                         *)
(* Time is counted in microseconds so that the wait estimate               *)
(* 0.000014*b^2 + 0.02255*b + 1.08 s is the integer 14*b^2+22550*b+1080000.*)
(* Python None is the empty tuple, a present value x is <<x>>; a missing   *)
(* or null "status" field of a body is the string "null".                  *)
(***************************************************************************)
EXTENDS Integers, Sequences, FiniteSets, TLC

\* ---------------------------------------------------------------- bounds
MaxTries == 2        \* largest max_tries argument tried
MaxInterval == 1     \* largest interval argument tried, in seconds
MaxStarted == 1      \* non-QUEUED, non-terminal observations per poll call
MaxPolls == 2        \* poll calls per handle
MaxBoxes == 1        \* entries in a response's bboxes field

\* ------------------------------------------------------ program constants
created == 201       \* requests.codes.created
ok == 200            \* requests.codes.ok
Micro == 1000000     \* microseconds per second

None == << >>
Some(x) == << x >>

HttpCodes == {ok, created, 404, 500}

\* Timings and data of a FINISHED answer: all four fields present (with
\* values that tell them apart), all missing, or only some present.
FinishedPayloads ==
  {[timeTaken |-> Some("t"), timeTakenFeatureExtraction |-> Some("f"),
    timeInQueue |-> Some("q"), data |-> Some("d")],
   [timeTaken |-> None, timeTakenFeatureExtraction |-> None,
    timeInQueue |-> None, data |-> None],
   [timeTaken |-> Some("t"), timeTakenFeatureExtraction |-> None,
    timeInQueue |-> None, data |-> Some("d")]}

\* Values of the "bboxes" field: missing, or a list of boxes (a short one,
\* or one of a hundred boxes).
BoxLists ==
  {None} \cup {Some([i \in 1..n |-> "box"]) : n \in (0..MaxBoxes) \cup {100}}

StatusNames == {"QUEUED", "STARTED", "FAILED", "FINISHED", "OTHER", "null"}

NoBody ==
  [status |-> "null", extractionGuid |-> None, bboxes |-> None,
   timeTaken |-> None, timeTakenFeatureExtraction |-> None,
   timeInQueue |-> None, data |-> None]

\* Bodies the submission endpoint answers with.
QueueBodies ==
  {[NoBody EXCEPT !.status = s, !.extractionGuid = g] :
      s \in StatusNames, g \in {None, Some("g1")}}

\* Bodies the status endpoint answers with: the box list is reported once
\* the extraction has started, timings and data once it has finished.
PollBodies ==
  {[NoBody EXCEPT !.status = s] : s \in {"QUEUED", "FAILED", "OTHER", "null"}}
  \cup {[NoBody EXCEPT !.status = "STARTED", !.bboxes = b] : b \in BoxLists}
  \cup {[NoBody EXCEPT !.status = "FINISHED", !.bboxes = b,
                       !.timeTaken = p.timeTaken,
                       !.timeTakenFeatureExtraction =
                          p.timeTakenFeatureExtraction,
                       !.timeInQueue = p.timeInQueue,
                       !.data = p.data] :
          b \in BoxLists, p \in FinishedPayloads}

\* Bodies of answers that are not OK: poll never reads them.
ErrorBodies == {[NoBody EXCEPT !.status = s] : s \in {"null", "FINISHED"}}

VARIABLES
  pc,          \* position of the caller / of the running call
  handle,      \* None, or <<the Extraction object>>
  try_count,   \* poll's local retry counter
  max_tries,   \* poll's argument
  interval,    \* poll's argument, in seconds
  wait_period, \* poll's local: the estimate computed for a STARTED answer
  ret,         \* what the last poll call returned
  net,         \* outcome of the last network call of the running call
  response,    \* body of the last HTTP response of the running call
  requests,    \* network calls issued so far
  clock,       \* time.time(): total time slept so far, microseconds
  req0,        \* requests at entry of the running / last poll call
  clock0,      \* clock at entry of the running / last poll call
  queuedObs,   \* QUEUED observations of the running / last poll call
  otherObs,    \* STARTED and unknown-status observations of that call
  sumWaits,    \* sum of the estimates computed in that call
  pollCalls,   \* poll calls made
  startedObs,  \* STARTED observations of the running / last poll call
  events,      \* that call's last status check and the sleeps after it
  task,        \* None, or <<the Task object>>
  taskError,   \* the exception Task construction raised, or "none"
  sent,        \* method and endpoint of the last Swarm request
  swarmRet,    \* the Swarm call made and how it ended
  taskArgs,    \* None, or <<the arguments Task(...) was called with>>
  swarmBody    \* JSON body of the last Swarm response, or "none"

vars ==
  <<pc, handle, try_count, max_tries, interval, wait_period, ret, net,
    response, requests, clock, req0, clock0, queuedObs, otherObs, sumWaits,
    pollCalls, startedObs, events, task, taskError, sent, swarmRet,
    taskArgs, swarmBody>>

exfilVars ==
  <<handle, try_count, max_tries, interval, wait_period, ret, req0, clock0,
    queuedObs, otherObs, sumWaits, pollCalls, startedObs, events>>

swarmVars == <<task, taskError, sent, swarmRet, taskArgs, swarmBody>>

\* ------------------------------------------------------------ Extraction
\* Extraction.__init__
Extraction(extraction_guid, status, now) ==
  [guid |-> extraction_guid, status |-> status, time_queued |-> now,
   time_finished |-> None, result |-> None]

\* Extraction.update_status
update_status(e, status) == [e EXCEPT !.status = status]

\* save_result that forgets the completion time
save_result_NoTime(e, result, now) == [e EXCEPT !.result = Some(result)]

\* Extraction.save_result
save_result(e, result, now) ==
  [e EXCEPT !.time_finished = Some(now), !.result = Some(result)]

\* --------------------------------------------------------------- helpers
\* loop conditions that stop on STARTED too / that go on after FINISHED
IsTerminal_WithStarted(status) == status \in {"FAILED", "FINISHED", "STARTED"}
IsTerminal_OnlyFailed(status) == status = "FAILED"

\* the loop condition of poll: extraction.status in ['FAILED', 'FINISHED']
IsTerminal(status) == status \in {"FAILED", "FINISHED"}

\* an estimate without its quadratic term
estimate_extraction_time_Linear(bounding_box_count) ==
  22550 * bounding_box_count + 1080000

\* estimate_extraction_time, in microseconds
estimate_extraction_time(bounding_box_count) ==
  14 * (bounding_box_count * bounding_box_count)
    + 22550 * bounding_box_count + 1080000

\* len(response.get('bboxes', []))
BoxCount(body) == IF body.bboxes = None THEN 0 ELSE Len(body.bboxes[1])

\* a result dictionary with total_time and time_in_queue exchanged
BuildResult_Swapped(body) ==
  [total_time |-> body.timeInQueue,
   feature_extraction_time |-> body.timeTakenFeatureExtraction,
   time_in_queue |-> body.timeTaken,
   data |-> body.data,
   bboxes |-> body.bboxes]

\* the result dictionary poll builds from a FINISHED response
BuildResult(body) ==
  [total_time |-> body.timeTaken,
   feature_extraction_time |-> body.timeTakenFeatureExtraction,
   time_in_queue |-> body.timeInQueue,
   data |-> body.data,
   bboxes |-> body.bboxes]

\* queue taking every OK or Created answer for a success
QueueResult_AnySuccess(code, body, now) ==
  IF code \in {ok, created}
    THEN Extraction(body.extractionGuid, body.status, now)
    ELSE Extraction(None, "FAILED", now)

\* what queue returns for an HTTP response
QueueResult(code, body, now) ==
  IF code = created
    THEN Extraction(body.extractionGuid, body.status, now)
    ELSE Extraction(None, "FAILED", now)

\* a retry limit test that allows one more try
Exhausted_OneLater(count, limit) == count > limit + 1

\* the retry limit test of poll
Exhausted(count, limit) == count > limit

\* a not-OK branch that returns without marking the handle
OnNotOk_Unmarked(e) == e

\* the branch of poll for a response that is not OK
OnNotOk(e) == update_status(e, "FAILED")

\* ------------------------------------------------------------------ Task
\* Python values handed to Task(...): a type tag and a payload.  The outcome
\* is the one string whose characters the code inspects; its payload is the
\* sequence of its characters.
PyNone == [t |-> "NoneType", v |-> "None"]
PyStr(s) == [t |-> "str", v |-> s]
PyInt == [t |-> "int", v |-> "7"]
PyDatetime(d) == [t |-> "datetime", v |-> d]
PyDict == [t |-> "dict", v |-> "{}"]
PyList == [t |-> "list", v |-> "[]"]

\* isinstance(x, ty)
isinstance(x, ty) == x.t = ty

\* datetime.isoformat
isoformat(d) ==
  IF d.v = "d1" THEN PyStr("2021-03-04T05:06:07")
                ELSE PyStr("2022-11-30T23:59:59.000123")

UpperChars == {"S", "F"}

\* str.isupper on one character
isupper(c) == c \in UpperChars

IdArgs == {PyStr("t1"), PyInt}
TimeArgs == {PyNone, PyDatetime("d1"), PyDatetime("d2"), PyStr("2021-03-04")}
StatusArgs == {PyStr("FAILURE"), PyStr("SUCCESS"), PyStr("QUEUED"), PyInt}
EnvArgs == {PyStr("TEST"), PyStr("UAT"), PyStr("PROD"), PyStr("DEV"), PyNone}
\* outcome arguments: strings given by their characters, and the int 7
OutcomeArgs ==
  {PyStr(<< >>), PyStr(<<"S">>), PyStr(<<"s">>), PyStr(<<"F", "s">>),
   PyStr(<<"1", "S">>), [t |-> "int", v |-> <<"7">>]}
DetailArgs == {PyNone, PyDict, PyList, PyStr("text")}

\* a timestamp conversion that keeps the datetime object
StoredTime_Raw(x) == x

\* the timestamp conversion of Task.__init__ (lines 66-67, 70-71)
StoredTime(x) == IF x # PyNone THEN isoformat(x) ELSE x

\* an environment normalisation that keeps UAT
StoredEnv_Kept(x) == x

\* the environment normalisation of Task.__init__ (lines 83-84)
StoredEnv(x) == IF x = PyStr("UAT") THEN PyStr("TEST") ELSE x

\* the validation of Task.__init__, in the order the code runs it: the
\* exception raised, or "none"
TaskValidate(task_id, start, finish, status, environment, outcome, details) ==
  IF ~isinstance(task_id, "str")
    THEN "Id must be a string"
  ELSE IF start # PyNone /\ ~isinstance(start, "datetime")
    THEN "Start value must be a datetime object if provided"
  ELSE IF finish # PyNone /\ ~isinstance(finish, "datetime")
    THEN "End value must be a datetime object if provided"
  ELSE IF ~isinstance(status, "str")
    THEN "Status must be a string and one of FAILURE or SUCCESS"
  ELSE IF status.v \notin {"FAILURE", "SUCCESS"}
    THEN "Status must be one of FAILURE or SUCCESS"
  ELSE IF ~isinstance(environment, "str")
    THEN "Status must be a string and one of TEST, UAT, or PROD"
  ELSE IF environment.v \notin {"TEST", "UAT", "PROD"}
    THEN "Status must be one of TEST, UAT, or PROD"
  ELSE IF ~isinstance(outcome, "str")
    THEN "Response must be a string"
  ELSE IF Len(outcome.v) = 0
    THEN "IndexError"
  ELSE IF ~isupper(outcome.v[1])
    THEN "First letter of response must be upper case"
  ELSE IF ~(isinstance(details, "dict") \/ isinstance(details, "list"))
          /\ details # PyNone
    THEN "Details must be JSON compatible: list or dictionary"
  ELSE "none"

\* the attributes of a constructed Task (task.__dict__)
TaskObject(task_id, start, finish, status, environment, outcome, details) ==
  [guid |-> task_id,
   created |-> StoredTime(start),
   updated |-> StoredTime(finish),
   status |-> status,
   environment |-> StoredEnv(environment),
   stages |-> PyList,
   outcome |-> outcome,
   data |-> details,
   swarm_version |-> PyStr("N/A")]

\* the arguments of one Task(...) call
TaskArgs(task_id, start, finish, status, environment, outcome, details) ==
  [task_id |-> task_id, start |-> start, finish |-> finish,
   status |-> status, environment |-> environment, response |-> outcome,
   details |-> details]

\* an upload that takes 200 for a success too
UploadResult_OkToo(code, body) ==
  IF code \in {ok, created}
    THEN [call |-> "upload", kind |-> "json", body |-> body]
    ELSE [call |-> "upload", kind |-> "False", body |-> "none"]

\* what upload_swarm_task returns for an HTTP response
UploadResult(code, body) ==
  IF code = created
    THEN [call |-> "upload", kind |-> "json", body |-> body]
    ELSE [call |-> "upload", kind |-> "False", body |-> "none"]

\* attribute lookup on an object: obj.name raises AttributeError without it
HasAttr(obj, name) == name \in DOMAIN obj

\* JSON bodies the Swarm service answers with
SwarmBodies == {"{}", "{\"id\": 1}"}

\* what poll does that takes time or reaches the server
CheckEvent == <<"check", 0>>
SleepEvent(d) == <<"sleep", d>>

Init ==
  /\ pc = "start"
  /\ handle = None
  /\ try_count = 0
  /\ max_tries = 0
  /\ interval = 0
  /\ wait_period = 0
  /\ ret = "none"
  /\ net = [kind |-> "none", code |-> 0]
  /\ response = NoBody
  /\ requests = 0
  /\ clock = 0
  /\ req0 = 0
  /\ clock0 = 0
  /\ queuedObs = 0
  /\ otherObs = 0
  /\ sumWaits = 0
  /\ pollCalls = 0
  /\ startedObs = 0
  /\ events = << >>
  /\ task = None
  /\ taskError = "none"
  /\ sent = [method |-> "none", url |-> "none"]
  /\ swarmRet = [call |-> "none", kind |-> "none", body |-> "none"]
  /\ taskArgs = None
  /\ swarmBody = "none"

\* ------------------------------------------------------------ ExfilAPI
\* queue: requests.post raises (no try/except in queue: the error leaves it)
QueueTransportError ==
  /\ pc = "start"
  /\ requests' = requests + 1
  /\ net' = [kind |-> "error", code |-> 0]
  /\ pc' = "queue_raised"
  /\ UNCHANGED <<response, clock>>
  /\ UNCHANGED exfilVars
  /\ UNCHANGED swarmVars

\* queue: requests.post answers
QueueCall ==
  /\ pc = "start"
  /\ \E code \in HttpCodes, body \in QueueBodies :
       /\ requests' = requests + 1
       /\ net' = [kind |-> "http", code |-> code]
       /\ response' = body
       /\ handle' = Some(QueueResult(code, body, clock))
  /\ pc' = "main"
  /\ UNCHANGED <<try_count, max_tries, interval, wait_period, ret, clock,
                 req0, clock0, queuedObs, otherObs, sumWaits, pollCalls,
                 startedObs, events>>
  /\ UNCHANGED swarmVars

\* poll is called on the handle: try_count = 0, then the loop test
PollEnter ==
  /\ pc = "main"
  /\ pollCalls < MaxPolls
  /\ \E mt \in 0..MaxTries, iv \in 0..MaxInterval :
       /\ max_tries' = mt
       /\ interval' = iv
  /\ try_count' = 0
  /\ wait_period' = 0
  /\ ret' = "none"
  /\ req0' = requests
  /\ clock0' = clock
  /\ queuedObs' = 0
  /\ otherObs' = 0
  /\ sumWaits' = 0
  /\ pollCalls' = pollCalls + 1
  /\ startedObs' = 0
  /\ events' = << >>
  /\ net' = [kind |-> "none", code |-> 0]
  /\ response' = NoBody
  /\ pc' = "poll_while"
  /\ UNCHANGED <<handle, requests, clock>>
  /\ UNCHANGED swarmVars

\* the loop test fails: poll falls off its end and returns None
PollFallOff ==
  /\ pc = "poll_while"
  /\ IsTerminal(handle[1].status)
  /\ ret' = "None"
  /\ pc' = "main"
  /\ UNCHANGED <<handle, try_count, max_tries, interval, wait_period, net,
                 response, requests, clock, req0, clock0, queuedObs,
                 otherObs, sumWaits, pollCalls,
                 startedObs, events>>
  /\ UNCHANGED swarmVars

\* the loop test holds: time.sleep(interval)
PollSleep ==
  /\ pc = "poll_while"
  /\ ~IsTerminal(handle[1].status)
  /\ clock' = clock + interval * Micro
  /\ pc' = "poll_request"
  /\ events' = Append(events, SleepEvent(interval * Micro))
  /\ UNCHANGED <<handle, try_count, max_tries, interval, wait_period, ret,
                 net, response, requests, req0, clock0, queuedObs, otherObs,
                 sumWaits, pollCalls,
                 startedObs>>
  /\ UNCHANGED swarmVars

\* requests.get raises (no try/except in poll: the error leaves it)
PollTransportError ==
  /\ pc = "poll_request"
  /\ requests' = requests + 1
  /\ net' = [kind |-> "error", code |-> 0]
  /\ pc' = "poll_raised"
  /\ events' = << CheckEvent >>
  /\ UNCHANGED <<handle, try_count, max_tries, interval, wait_period, ret,
                 response, clock, req0, clock0, queuedObs, otherObs,
                 sumWaits, pollCalls,
                 startedObs>>
  /\ UNCHANGED swarmVars

\* requests.get answers with a status other than OK
PollNotOk ==
  /\ pc = "poll_request"
  /\ \E code \in HttpCodes \ {ok}, body \in ErrorBodies :
       /\ net' = [kind |-> "http", code |-> code]
       /\ response' = body
  /\ requests' = requests + 1
  /\ handle' = Some(OnNotOk(handle[1]))
  /\ ret' = "extraction"
  /\ pc' = "main"
  /\ events' = << CheckEvent >>
  /\ UNCHANGED <<try_count, max_tries, interval, wait_period, clock, req0,
                 clock0, queuedObs, otherObs, sumWaits, pollCalls,
                 startedObs>>
  /\ UNCHANGED swarmVars

\* requests.get answers OK with status QUEUED
PollQueued ==
  /\ pc = "poll_request"
  /\ \E body \in PollBodies :
       /\ body.status = "QUEUED"
       /\ response' = body
  /\ net' = [kind |-> "http", code |-> ok]
  /\ requests' = requests + 1
  /\ try_count' = try_count + 1
  /\ queuedObs' = queuedObs + 1
  /\ IF Exhausted(try_count + 1, max_tries)
       THEN /\ handle' = Some(update_status(
                            update_status(handle[1], "QUEUED"), "FAILED"))
            /\ ret' = "extraction"
            /\ pc' = "main"
       ELSE /\ handle' = Some(update_status(handle[1], "QUEUED"))
            /\ ret' = ret
            /\ pc' = "poll_while"
  /\ events' = << CheckEvent >>
  /\ UNCHANGED <<max_tries, interval, wait_period, clock, req0, clock0,
                 otherObs, sumWaits, pollCalls,
                 startedObs>>
  /\ UNCHANGED swarmVars

\* a STARTED branch that starts the retry counter again
PollStarted_ResetsCount ==
  /\ pc = "poll_request"
  /\ otherObs < MaxStarted
  /\ \E body \in PollBodies :
       /\ body.status = "STARTED"
       /\ response' = body
       /\ wait_period' = estimate_extraction_time(BoxCount(body))
       /\ sumWaits' = sumWaits + estimate_extraction_time(BoxCount(body))
  /\ net' = [kind |-> "http", code |-> ok]
  /\ requests' = requests + 1
  /\ otherObs' = otherObs + 1
  /\ handle' = Some(update_status(handle[1], "STARTED"))
  /\ pc' = "poll_wait"
  /\ events' = << CheckEvent >>
  /\ startedObs' = startedObs + 1
  /\ try_count' = 0
  /\ UNCHANGED <<max_tries, interval, ret, clock, req0, clock0,
                 queuedObs, pollCalls>>
  /\ UNCHANGED swarmVars

\* requests.get answers OK with status STARTED: the estimate is computed
PollStarted ==
  /\ pc = "poll_request"
  /\ otherObs < MaxStarted
  /\ \E body \in PollBodies :
       /\ body.status = "STARTED"
       /\ response' = body
       /\ wait_period' = estimate_extraction_time(BoxCount(body))
       /\ sumWaits' = sumWaits + estimate_extraction_time(BoxCount(body))
  /\ net' = [kind |-> "http", code |-> ok]
  /\ requests' = requests + 1
  /\ otherObs' = otherObs + 1
  /\ handle' = Some(update_status(handle[1], "STARTED"))
  /\ pc' = "poll_wait"
  /\ events' = << CheckEvent >>
  /\ startedObs' = startedObs + 1
  /\ UNCHANGED <<try_count, max_tries, interval, ret, clock, req0, clock0,
                 queuedObs, pollCalls>>
  /\ UNCHANGED swarmVars

\* a STARTED branch that waits and never goes back to the loop test
PollWait_NeverResumes ==
  /\ pc = "poll_wait"
  /\ UNCHANGED vars

\* a STARTED branch that goes back to the loop test without sleeping
PollWait_NoSleep ==
  /\ pc = "poll_wait"
  /\ clock' = clock
  /\ pc' = "poll_while"
  /\ events' = events
  /\ UNCHANGED <<handle, try_count, max_tries, interval, wait_period, ret,
                 net, response, requests, req0, clock0, queuedObs, otherObs,
                 sumWaits, pollCalls,
                 startedObs>>
  /\ UNCHANGED swarmVars

\* time.sleep(wait_period), then back to the loop test
PollWait ==
  /\ pc = "poll_wait"
  /\ clock' = clock + wait_period
  /\ pc' = "poll_while"
  /\ events' = Append(events, SleepEvent(wait_period))
  /\ UNCHANGED <<handle, try_count, max_tries, interval, wait_period, ret,
                 net, response, requests, req0, clock0, queuedObs, otherObs,
                 sumWaits, pollCalls,
                 startedObs>>
  /\ UNCHANGED swarmVars

\* requests.get answers OK with status FAILED
PollFailed ==
  /\ pc = "poll_request"
  /\ \E body \in PollBodies :
       /\ body.status = "FAILED"
       /\ response' = body
  /\ net' = [kind |-> "http", code |-> ok]
  /\ requests' = requests + 1
  /\ handle' = Some(update_status(handle[1], "FAILED"))
  /\ ret' = "extraction"
  /\ pc' = "main"
  /\ events' = << CheckEvent >>
  /\ UNCHANGED <<try_count, max_tries, interval, wait_period, clock, req0,
                 clock0, queuedObs, otherObs, sumWaits, pollCalls,
                 startedObs>>
  /\ UNCHANGED swarmVars

\* requests.get answers OK with status FINISHED
PollFinished ==
  /\ pc = "poll_request"
  /\ \E body \in PollBodies :
       /\ body.status = "FINISHED"
       /\ response' = body
       /\ handle' = Some(save_result(update_status(handle[1], "FINISHED"),
                                     BuildResult(body), clock))
  /\ net' = [kind |-> "http", code |-> ok]
  /\ requests' = requests + 1
  /\ ret' = "extraction"
  /\ pc' = "main"
  /\ events' = << CheckEvent >>
  /\ UNCHANGED <<try_count, max_tries, interval, wait_period, clock, req0,
                 clock0, queuedObs, otherObs, sumWaits, pollCalls,
                 startedObs>>
  /\ UNCHANGED swarmVars

\* requests.get answers OK with a status that is none of the four names
\* (or with none at all): no branch of the if chain is taken
PollUnknown ==
  /\ pc = "poll_request"
  /\ otherObs < MaxStarted
  /\ \E body \in PollBodies :
       /\ body.status \notin {"QUEUED", "STARTED", "FAILED", "FINISHED"}
       /\ response' = body
       /\ handle' = Some(update_status(handle[1], body.status))
  /\ net' = [kind |-> "http", code |-> ok]
  /\ requests' = requests + 1
  /\ otherObs' = otherObs + 1
  /\ pc' = "poll_while"
  /\ events' = << CheckEvent >>
  /\ UNCHANGED <<try_count, max_tries, interval, wait_period, ret, clock,
                 req0, clock0, queuedObs, sumWaits, pollCalls,
                 startedObs>>
  /\ UNCHANGED swarmVars

\* ------------------------------------------------------------- SwarmAPI
\* Task(...) passes its validation
NewTask ==
  /\ pc = "start"
  /\ \E i \in IdArgs, st \in TimeArgs, fi \in TimeArgs, s \in StatusArgs,
        e \in EnvArgs, o \in OutcomeArgs, d \in DetailArgs :
       /\ TaskValidate(i, st, fi, s, e, o, d) = "none"
       /\ task' = Some(TaskObject(i, st, fi, s, e, o, d))
       /\ taskArgs' = Some(TaskArgs(i, st, fi, s, e, o, d))
  /\ pc' = "task_main"
  /\ UNCHANGED <<taskError, sent, swarmRet, swarmBody, net, response,
                 requests, clock>>
  /\ UNCHANGED exfilVars

\* Task(...) raises
NewTaskRaises ==
  /\ pc = "start"
  /\ \E i \in IdArgs, st \in TimeArgs, fi \in TimeArgs, s \in StatusArgs,
        e \in EnvArgs, o \in OutcomeArgs, d \in DetailArgs :
       /\ TaskValidate(i, st, fi, s, e, o, d) # "none"
       /\ taskError' = TaskValidate(i, st, fi, s, e, o, d)
       /\ taskArgs' = Some(TaskArgs(i, st, fi, s, e, o, d))
  /\ pc' = "task_raised"
  /\ UNCHANGED <<task, sent, swarmRet, swarmBody, net, response, requests,
                 clock>>
  /\ UNCHANGED exfilVars

\* upload_swarm_task: requests.post raises
UploadTransportError ==
  /\ pc = "task_main"
  /\ requests' = requests + 1
  /\ net' = [kind |-> "error", code |-> 0]
  /\ sent' = [method |-> "POST", url |-> <<"tasks", "create">>]
  /\ swarmRet' = [call |-> "upload", kind |-> "ConnectionError",
                  body |-> "none"]
  /\ pc' = "swarm_raised"
  /\ UNCHANGED <<task, taskError, taskArgs, swarmBody, response, clock>>
  /\ UNCHANGED exfilVars

\* upload_swarm_task: requests.post answers
UploadSwarmTask ==
  /\ pc = "task_main"
  /\ \E code \in HttpCodes, body \in SwarmBodies :
       /\ net' = [kind |-> "http", code |-> code]
       /\ swarmBody' = body
       /\ swarmRet' = UploadResult(code, body)
  /\ requests' = requests + 1
  /\ sent' = [method |-> "POST", url |-> <<"tasks", "create">>]
  /\ pc' = "swarm_done"
  /\ UNCHANGED <<task, taskError, taskArgs, response, clock>>
  /\ UNCHANGED exfilVars

\* update_swarm_task: the endpoint is built from task.id before the request
\* is made; then requests.put raises or answers
UpdateSwarmTask ==
  /\ pc = "task_main"
  /\ IF ~HasAttr(task[1], "id")
       THEN /\ swarmRet' = [call |-> "update", kind |-> "AttributeError",
                            body |-> "none"]
            /\ pc' = "swarm_raised"
            /\ UNCHANGED <<net, requests, sent, swarmBody>>
       ELSE /\ requests' = requests + 1
            /\ sent' = [method |-> "PUT", url |-> <<"tasks", task[1].id.v>>]
            /\ \/ /\ net' = [kind |-> "error", code |-> 0]
                  /\ swarmRet' = [call |-> "update",
                                  kind |-> "ConnectionError",
                                  body |-> "none"]
                  /\ swarmBody' = swarmBody
                  /\ pc' = "swarm_raised"
               \/ /\ \E code \in HttpCodes, body \in SwarmBodies :
                       /\ net' = [kind |-> "http", code |-> code]
                       /\ swarmBody' = body
                       /\ swarmRet' = IF code = ok
                                        THEN [call |-> "update",
                                              kind |-> "json", body |-> body]
                                        ELSE [call |-> "update",
                                              kind |-> "False",
                                              body |-> "none"]
                  /\ pc' = "swarm_done"
  /\ UNCHANGED <<task, taskError, taskArgs, response, clock>>
  /\ UNCHANGED exfilVars

Next ==
  \/ QueueTransportError
  \/ QueueCall
  \/ PollEnter
  \/ PollFallOff
  \/ PollSleep
  \/ PollTransportError
  \/ PollNotOk
  \/ PollQueued
  \/ PollStarted
  \/ PollWait
  \/ PollFailed
  \/ PollFinished
  \/ PollUnknown
  \/ NewTask
  \/ NewTaskRaises
  \/ UploadTransportError
  \/ UploadSwarmTask
  \/ UpdateSwarmTask

Spec == Init /\ [][Next]_vars

\* One queue call and one poll call against a server that answers every
\* status check and, when it answers OK, with one of the four statuses; it
\* answers STARTED at most MaxStarted times.  poll is running code: its
\* sleeps end and its request is answered, so its next step is always taken.
PollFirst == pollCalls = 0 /\ PollEnter

PollStep ==
  \/ PollFallOff
  \/ PollSleep
  \/ PollNotOk
  \/ PollQueued
  \/ PollStarted
  \/ PollWait
  \/ PollFailed
  \/ PollFinished

LiveNext == QueueCall \/ PollFirst \/ PollStep

LiveSpec == Init /\ [][LiveNext]_vars /\ WF_vars(PollStep)

\* ================================================================ claims
Terminal == {"FAILED", "FINISHED"}

\* a poll call has ended by returning
PollReturned == pc = "main" /\ pollCalls >= 1

\* status checks issued and time slept by the running / last poll call
Checks == requests - req0
Slept == clock - clock0

\* C1: if every status check of a poll call answers OK with status QUEUED,
\* poll returns after exactly max_tries QUEUED observations (exactly
\* max_tries status-check requests) with the handle's status FAILED.
C1_ReturnsAfterMaxTriesQueued ==
  (/\ PollReturned
   /\ ret = "extraction"
   /\ otherObs = 0
   /\ net = [kind |-> "http", code |-> ok]
   /\ response.status = "QUEUED")
  => (/\ queuedObs = max_tries
      /\ Checks = max_tries
      /\ handle[1].status = "FAILED")

\* C2 as stated: the time a poll call spends sleeping is at most
\* max_tries * interval plus the sum of the estimated waits of that call.
C2_SleepWithinMaxTriesIntervals ==
  (pc \in {"main", "poll_raised"} /\ pollCalls >= 1)
  => Slept <= max_tries * interval * Micro + sumWaits

\* C2 amended: the time a poll call spends sleeping is at most
\* (max_tries + 1 + n) * interval plus the sum of the estimated waits of that
\* call, n being the number of its observations that were STARTED or carried
\* an unrecognised status; it is exactly interval times the number of status
\* checks issued, plus that sum.
C2_SleepWithinChecksIntervals ==
  (pc \in {"main", "poll_raised"} /\ pollCalls >= 1)
  => /\ Slept = Checks * interval * Micro + sumWaits
     /\ Slept <= (max_tries + 1 + otherObs) * interval * Micro + sumWaits

\* a call that slept through max_tries + 1 QUEUED and some STARTED answers
C2_Witness ==
  /\ PollReturned
  /\ interval >= 1
  /\ queuedObs = max_tries + 1
  /\ otherObs >= 1
  /\ sumWaits > 0
  /\ Slept = (max_tries + 1 + otherObs) * interval * Micro + sumWaits

\* C3: whenever a poll call returns, the handle's status is FAILED or
\* FINISHED, never QUEUED, STARTED or another non-terminal value.
C3_ReturnsOnlyTerminal ==
  PollReturned => handle[1].status \in Terminal

\* a call that saw QUEUED and STARTED answers and returned the handle
C3_Witness ==
  /\ PollReturned
  /\ ret = "extraction"
  /\ queuedObs >= 1
  /\ otherObs >= 1
  /\ handle[1].status = "FINISHED"

\* C4: the first status check answered with an HTTP status other than OK
\* sets the handle FAILED and makes poll return at once: that step ends the
\* call, adds no sleep, leaves the retry counter alone, and the handle's
\* result and completion time stay absent.
C4_NotOkFailsAtOnce ==
  [][(/\ pc = "poll_request"
      /\ requests' = requests + 1
      /\ net'.kind = "http"
      /\ net'.code # ok)
     => (/\ pc' = "main"
         /\ ret' = "extraction"
         /\ handle'[1].status = "FAILED"
         /\ handle'[1].result = None
         /\ handle'[1].time_finished = None
         /\ try_count' = try_count
         /\ queuedObs' = queuedObs
         /\ clock' = clock)]_vars

\* a call ended by a not-OK answer after earlier QUEUED answers
C4_Witness ==
  /\ PollReturned
  /\ net.kind = "http"
  /\ net.code = 500
  /\ Checks >= 2
  /\ queuedObs >= 1
  /\ queuedObs <= max_tries
  /\ handle[1].status = "FAILED"

\* C5: when the HTTP transport fails during queue or during a status check
\* of poll, the call does not raise: it ends with a handle whose status is
\* FAILED.
C5_TransportFailureGivesFailedHandle ==
  (net.kind = "error" /\ swarmRet.call = "none")
  => (/\ pc = "main"
      /\ handle # None
      /\ handle[1].status = "FAILED")

\* C6: queue issues exactly one network call; for every HTTP status other
\* than 201 its handle has no identifier and status FAILED, on 201 the
\* handle carries the identifier and the status of the response body.
C6_QueueResult ==
  (pc = "main" /\ pollCalls = 0)
  => /\ requests = 1
     /\ IF net.code = created
          THEN /\ handle[1].guid = response.extractionGuid
               /\ handle[1].status = response.status
          ELSE /\ handle[1].guid = None
               /\ handle[1].status = "FAILED"

\* queue answered 200 with a body naming an identifier
C6_Witness ==
  /\ pc = "main"
  /\ pollCalls = 0
  /\ net.code = ok
  /\ response.extractionGuid # None
  /\ response.status = "QUEUED"
  /\ handle[1].status = "FAILED"

\* C7: once a handle's status is FAILED or FINISHED no step changes its
\* status, result or completion time, and no status check is issued and no
\* sleep performed, whatever poll calls follow.
C7_TerminalAbsorbing ==
  [][(handle # None /\ handle[1].status \in Terminal)
     => (/\ handle' = handle
         /\ requests' = requests
         /\ clock' = clock)]_vars

\* a second poll call on a FINISHED handle has returned
C7_Witness ==
  /\ PollReturned
  /\ pollCalls = 2
  /\ ret = "None"
  /\ Checks = 0
  /\ handle[1].status = "FINISHED"
  /\ handle[1].result # None

\* C8: the handle's result is set only if its status is FINISHED, its
\* completion time is set exactly when its result is set, and a FAILED
\* handle has no result.
C8_ResultOnlyWhenFinished ==
  handle # None
  => /\ (handle[1].result # None => handle[1].status = "FINISHED")
     /\ (handle[1].time_finished # None <=> handle[1].result # None)
     /\ (handle[1].status = "FAILED" => handle[1].result = None)

\* a handle that carries a result
C8_Witness ==
  /\ handle # None
  /\ handle[1].result # None
  /\ handle[1].time_finished # None

\* C9: a status check answered OK with status FINISHED stores the result
\* record built from the five fields of that response, sets the completion
\* time and ends the call.
C9_FinishedStoresResult ==
  [][(/\ pc = "poll_request"
      /\ requests' = requests + 1
      /\ net' = [kind |-> "http", code |-> ok]
      /\ response'.status = "FINISHED")
     => (/\ handle'[1].result =
              Some([total_time |-> response'.timeTaken,
                    feature_extraction_time |->
                      response'.timeTakenFeatureExtraction,
                    time_in_queue |-> response'.timeInQueue,
                    data |-> response'.data,
                    bboxes |-> response'.bboxes])
         /\ handle'[1].time_finished = Some(clock')
         /\ handle'[1].status = "FINISHED"
         /\ ret' = "extraction"
         /\ pc' = "main")]_vars

\* a stored result with all five fields present
C9_Witness ==
  /\ PollReturned
  /\ handle[1].result # None
  /\ handle[1].result[1].total_time = Some("t")
  /\ handle[1].result[1].feature_extraction_time = Some("f")
  /\ handle[1].result[1].time_in_queue = Some("q")
  /\ handle[1].result[1].data = Some("d")
  /\ handle[1].result[1].bboxes # None
  /\ handle[1].time_finished = Some(clock)

\* C10: update_swarm_task issues exactly one PUT request to the endpoint of
\* the Task's identifier and returns the decoded body on status 200 and
\* False on every other status; it never ends in an error.
C10_UpdateOnePutNoError ==
  swarmRet.call = "update"
  => /\ pc = "swarm_done"
     /\ requests = 1
     /\ sent = [method |-> "PUT", url |-> <<"tasks", task[1].guid.v>>]
     /\ swarmRet.kind = (IF net.code = ok THEN "json" ELSE "False")

\* C11: upload_swarm_task is single-shot: it issues exactly one POST request
\* and returns the decoded response body when the status is 201 and False
\* for every other status, 200 included.
C11_UploadOnePost ==
  swarmRet.call = "upload"
  => /\ requests = 1
     /\ sent = [method |-> "POST", url |-> <<"tasks", "create">>]
     /\ (pc = "swarm_done"
         => /\ swarmRet.kind = (IF net.code = 201 THEN "json" ELSE "False")
            /\ (net.code = 201 => swarmRet.body = swarmBody))

\* an upload answered 200 returned False
C11_Witness ==
  /\ pc = "swarm_done"
  /\ swarmRet.call = "upload"
  /\ net.code = 200
  /\ swarmBody # "none"
  /\ swarmRet.kind = "False"

\* status and environment arguments Task(...) accepts
StatusOk(a) == a.status.t = "str" /\ a.status.v \in {"FAILURE", "SUCCESS"}
EnvOk(a) ==
  a.environment.t = "str" /\ a.environment.v \in {"TEST", "UAT", "PROD"}

\* C12: Task construction succeeds only if status is FAILURE or SUCCESS and
\* environment is TEST, UAT or PROD, and raises otherwise; a constructed Task
\* has environment TEST or PROD: UAT is stored as TEST, TEST and PROD are
\* stored unchanged.
C12_TaskEnums ==
  taskArgs # None
  => /\ (task # None => StatusOk(taskArgs[1]) /\ EnvOk(taskArgs[1]))
     /\ (~(StatusOk(taskArgs[1]) /\ EnvOk(taskArgs[1]))
         => pc = "task_raised" /\ task = None /\ taskError # "none")
     /\ (task # None
         => /\ task[1].environment.t = "str"
            /\ task[1].environment.v \in {"TEST", "PROD"}
            /\ task[1].environment.v =
                 (IF taskArgs[1].environment.v = "UAT"
                    THEN "TEST" ELSE taskArgs[1].environment.v)
            /\ task[1].status = taskArgs[1].status)

\* a Task built with environment UAT
C12_Witness ==
  /\ task # None
  /\ taskArgs[1].environment.v = "UAT"
  /\ task[1].environment.v = "TEST"

\* C13 as stated: Task construction raises for every start or finish that
\* is not a datetime, None included, so a constructed Task has created and
\* updated both set to ISO-8601 strings.
C13_TimestampsAlwaysIso ==
  taskArgs # None
  => /\ ((taskArgs[1].start.t # "datetime"
          \/ taskArgs[1].finish.t # "datetime") => pc = "task_raised")
     /\ (task # None
         => task[1].created.t = "str" /\ task[1].updated.t = "str")

\* C13 amended: Task construction raises for every start or finish that is
\* neither None nor a datetime; in a constructed Task created (updated) is
\* None when start (finish) was None and an ISO-8601 string when it was a
\* datetime.
C13_TimestampsIsoOrNone ==
  taskArgs # None
  => /\ ((taskArgs[1].start.t \notin {"datetime", "NoneType"}
          \/ taskArgs[1].finish.t \notin {"datetime", "NoneType"})
         => pc = "task_raised" /\ task = None)
     /\ (task # None
         => /\ task[1].created.t =
                 (IF taskArgs[1].start.t = "NoneType"
                    THEN "NoneType" ELSE "str")
            /\ task[1].updated.t =
                 (IF taskArgs[1].finish.t = "NoneType"
                    THEN "NoneType" ELSE "str")
            /\ (taskArgs[1].start.v = "d1"
                => task[1].created.v = "2021-03-04T05:06:07")
            /\ (taskArgs[1].finish.v = "d2"
                => task[1].updated.v = "2022-11-30T23:59:59.000123"))

\* a Task built with no start and a datetime finish
C13_Witness ==
  /\ task # None
  /\ taskArgs[1].start.t = "NoneType"
  /\ task[1].created.t = "NoneType"
  /\ taskArgs[1].finish.t = "datetime"
  /\ task[1].updated.t = "str"

\* C14: with all other arguments valid, Task construction raises the
\* validation error for every outcome string that does not start with an
\* upper-case letter, the empty string included, and succeeds for every
\* outcome string that starts with one.
C14_OutcomeFirstLetter ==
  (/\ taskArgs # None
   /\ taskArgs[1].response.t = "str"
   /\ TaskValidate(taskArgs[1].task_id, taskArgs[1].start,
                   taskArgs[1].finish, taskArgs[1].status,
                   taskArgs[1].environment, PyStr(<<"S">>),
                   taskArgs[1].details) = "none")
  => IF /\ Len(taskArgs[1].response.v) > 0
        /\ taskArgs[1].response.v[1] \in {"S", "F"}
       THEN task # None
       ELSE /\ pc = "task_raised"
            /\ taskError = "First letter of response must be upper case"

\* C15: after any sequence of queue and poll calls, whatever the server's
\* response bodies, the handle's status is one of QUEUED, STARTED, FAILED,
\* FINISHED.
C15_StatusIsOneOfFour ==
  handle # None
  => handle[1].status \in {"QUEUED", "STARTED", "FAILED", "FINISHED"}

\* C16: for every handle passed to poll, one that is FAILED or FINISHED on
\* entry included, poll returns that same handle.
C16_PollReturnsHandle ==
  PollReturned => ret = "extraction"

InPoll == pc \in {"poll_while", "poll_request", "poll_wait"}

\* the step is a status check answered OK with status QUEUED
QueuedStep ==
  /\ pc = "poll_request"
  /\ net' = [kind |-> "http", code |-> 200]
  /\ response'.status = "QUEUED"

\* C17: within one poll call the retry counter starts at 0, grows by exactly
\* one on each QUEUED observation and changes on nothing else (a STARTED
\* observation neither counts nor resets it), so it is the cumulative number
\* of QUEUED observations, and that number decides retry exhaustion.
C17_RetryCounterCumulative ==
  [][/\ (pc = "main" /\ pc' = "poll_while" => try_count' = 0)
     /\ (InPoll => try_count' = (IF QueuedStep THEN try_count + 1
                                               ELSE try_count))
     /\ (InPoll => try_count = queuedObs /\ try_count' = queuedObs')
     /\ (QueuedStep => (pc' = "main" <=> queuedObs' > max_tries))
     /\ (QueuedStep /\ pc' = "main"
         => handle'[1].status = "FAILED" /\ ret' = "extraction")]_vars

\* a STARTED observation made after max_tries QUEUED ones: the count stands
C17_Witness ==
  /\ pc = "poll_request"
  /\ response.status = "STARTED"
  /\ startedObs >= 1
  /\ max_tries >= 1
  /\ try_count = max_tries
  /\ queuedObs = max_tries

\* the wait the claim states, in microseconds
WaitMicros(b) == 14 * b * b + 22550 * b + 1080000

\* number of entries of the bboxes field of the last response, 0 if missing
Boxes == IF response.bboxes = None THEN 0 ELSE Len(response.bboxes[1])

\* C19: every status check, the first included, is immediately preceded by
\* a sleep of interval, and each loop iteration issues exactly one status
\* check; after a STARTED observation poll sleeps the estimated wait and
\* then interval before the next check, after a QUEUED one only interval.
C19_SleepsBeforeChecks ==
  [][/\ (pc = "poll_while" => requests' = requests)
     /\ (pc = "poll_while" /\ pc' = "poll_request"
         => clock' = clock + interval * Micro)
     /\ (pc = "poll_wait"
         => /\ requests' = requests
            /\ pc' = "poll_while"
            /\ clock' = clock + WaitMicros(Boxes))
     /\ (pc = "poll_request"
         => /\ requests' = requests + 1
            /\ clock' = clock
            /\ pc' # "poll_request"
            /\ (pc' = "poll_wait" <=> /\ net'.kind = "http"
                                      /\ net'.code = 200
                                      /\ response'.status = "STARTED")
            /\ events =
                 (IF Checks = 0
                    THEN << SleepEvent(interval * Micro) >>
                  ELSE IF response.status = "STARTED"
                    THEN << CheckEvent, SleepEvent(WaitMicros(Boxes)),
                            SleepEvent(interval * Micro) >>
                  ELSE << CheckEvent, SleepEvent(interval * Micro) >>))
    ]_vars

\* about to check again after a STARTED observation: waited, then slept
C19_Witness ==
  /\ pc = "poll_request"
  /\ Checks >= 2
  /\ interval >= 1
  /\ response.status = "STARTED"
  /\ events = << CheckEvent, SleepEvent(WaitMicros(Boxes)),
                 SleepEvent(interval * Micro) >>

\* C20: the wait after a STARTED observation is 14*b^2 + 22550*b + 1080000
\* microseconds, b being the number of entries of the response's bboxes
\* field and 0 when the field is missing: 1.08 s for b = 0, 3.475 s for
\* b = 100, and strictly more than for every smaller b.
C20_EstimatedWait ==
  pc = "poll_wait"
  => /\ wait_period = WaitMicros(Boxes)
     /\ (response.bboxes = None => wait_period = 1080000)
     /\ (Boxes = 0 => wait_period = 1080000)
     /\ (Boxes = 100 => wait_period = 3475000)
     /\ \A c \in 0..(Boxes - 1) :
          /\ estimate_extraction_time(c) < estimate_extraction_time(c + 1)
          /\ estimate_extraction_time(c) < wait_period

\* the estimate for a response listing a hundred boxes
C20_Witness ==
  /\ pc = "poll_wait"
  /\ Boxes = 100
  /\ wait_period = 3475000

====
